---- MODULE Spec2Model ----
(***************************************************************************)
(* Model of ivre/zgrabout.py: zgrap_parser_http(data, hostrec), the        *)
(* normalizer of zgrab / zgrab2 HTTP results.                              *)
(*                                                                         *)
(* Python values are modelled as follows.                                   *)
(*   dict with string keys : a function whose DOMAIN is the set of keys    *)
(*                           present ({} is the empty function <<>>)       *)
(*   str that the code inspects (path, host, body, header names, version)  *)
(*                         : a sequence of one-character strings           *)
(*   str that the code only copies (scheme, status line, header values)    *)
(*                         : a TLA+ string; header values are wrapped as   *)
(*                           [str |-> s] so that a str can be told from a  *)
(*                           dict where the code indexes it                *)
(*   text the code formats : a sequence of atoms, the characters of the    *)
(*                           inserted values and one atom per literal      *)
(*                           fragment of the format string                 *)
(*   the headers dict      : a sequence of <<key, value>> pairs in         *)
(*                           insertion order                               *)
(*   a raised exception    : the return value [raised |-> <exception>]     *)
(***************************************************************************)
EXTENDS Integers, Sequences, FiniteSets, TLC

VARIABLES
    data,       \* the caller's raw result object (mutable, passed by reference)
    hostrec,    \* the caller's host record
    hist,       \* one entry per call made so far: its inputs and its outcome
    hashseed    \* the process's string hash seed: fixes the iteration order of sets

vars == <<data, hostrec, hist, hashseed>>

\* Number of successive calls made with one raw result object.
MaxCalls == 2

----------------------------------------------------------------------------
\* Python dict and sequence primitives

None == [NoneType |-> TRUE]

EmptyDict == <<>>

Has(d, k) == k \in DOMAIN d

Get(d, k, default) == IF Has(d, k) THEN d[k] ELSE default

Remove(d, k) == [x \in (DOMAIN d) \ {k} |-> d[x]]

\* d.update(e): the keys of e override those of d
Update(d, e) == e @@ d

SetItem(d, k, v) == (k :> v) @@ d

Truthy(x) == x # None /\ DOMAIN x # {}

Raised(exc) == [raised |-> exc]

IsRaised(r) == Has(r, "raised")

StartsWith(s, p) == Len(s) >= Len(p) /\ SubSeq(s, 1, Len(p)) = p

EndsWith(s, p) == Len(s) >= Len(p) /\ SubSeq(s, Len(s) - Len(p) + 1, Len(s)) = p

\* s[:-n]
DropLast(s, n) == SubSeq(s, 1, Len(s) - n)

\* sub in s
Contains(s, sub) ==
    \E i \in 1..(Len(s) - Len(sub) + 1) : SubSeq(s, i, i + Len(sub) - 1) = sub

\* index of the first occurrence of character c in s at or after i, 0 if none
RECURSIVE IndexFrom(_, _, _)
IndexFrom(s, c, i) ==
    IF i > Len(s) THEN 0
    ELSE IF s[i] = c THEN i
    ELSE IndexFrom(s, c, i + 1)

DigitChars == {"0", "1", "2", "3", "4", "5", "6", "7", "8", "9"}

DigitVal(c) ==
    CASE c = "0" -> 0 [] c = "1" -> 1 [] c = "2" -> 2 [] c = "3" -> 3
      [] c = "4" -> 4 [] c = "5" -> 5 [] c = "6" -> 6 [] c = "7" -> 7
      [] c = "8" -> 8 [] c = "9" -> 9

DigitChar(n) ==
    CASE n = 0 -> "0" [] n = 1 -> "1" [] n = 2 -> "2" [] n = 3 -> "3"
      [] n = 4 -> "4" [] n = 5 -> "5" [] n = 6 -> "6" [] n = 7 -> "7"
      [] n = 8 -> "8" [] n = 9 -> "9"

IsDigits(s) == Len(s) > 0 /\ \A i \in 1..Len(s) : s[i] \in DigitChars

RECURSIVE DigitsVal(_)
DigitsVal(s) ==
    IF Len(s) = 0 THEN 0
    ELSE 10 * DigitsVal(SubSeq(s, 1, Len(s) - 1)) + DigitVal(s[Len(s)])

\* int(s): [ok, val]; a text that is not an optionally signed run of digits
\* raises ValueError
IntParse(s) ==
    IF IsDigits(s) THEN [ok |-> TRUE, val |-> DigitsVal(s)]
    ELSE IF Len(s) > 1 /\ s[1] = "+" /\ IsDigits(Tail(s))
        THEN [ok |-> TRUE, val |-> DigitsVal(Tail(s))]
    ELSE IF Len(s) > 1 /\ s[1] = "-" /\ IsDigits(Tail(s))
        THEN [ok |-> TRUE, val |-> 0 - DigitsVal(Tail(s))]
    ELSE [ok |-> FALSE, val |-> 0]

\* '%d' % n
RECURSIVE NatToStr(_)
NatToStr(n) ==
    IF n < 10 THEN <<DigitChar(n)>>
    ELSE NatToStr(n \div 10) \o <<DigitChar(n % 10)>>

IntToStr(n) == IF n < 0 THEN <<"-">> \o NatToStr(0 - n) ELSE NatToStr(n)

\* s.split(sep): the texts between the occurrences of the character sep
RECURSIVE Split(_, _)
Split(s, sep) ==
    LET i == IndexFrom(s, sep, 1)
    IN  IF i = 0 THEN <<s>>
        ELSE <<SubSeq(s, 1, i - 1)>> \o Split(SubSeq(s, i + 1, Len(s)), sep)

\* sep.join(parts)
RECURSIVE Join(_, _)
Join(parts, sep) ==
    IF Len(parts) = 0 THEN <<>>
    ELSE IF Len(parts) = 1 THEN parts[1]
    ELSE parts[1] \o sep \o Join(Tail(parts), sep)

\* s.replace(a, b) for single characters a, b
Replace(s, a, b) == [i \in 1..Len(s) |-> IF s[i] = a THEN b ELSE s[i]]

LowerChar(c) ==
    CASE c = "T" -> "t" [] c = "I" -> "i" [] c = "L" -> "l" [] c = "E" -> "e"
      [] OTHER -> c

Lower(s) == [i \in 1..Len(s) |-> LowerChar(s[i])]

----------------------------------------------------------------------------
\* Literals of the source

S_GitIndex == <<"/", ".", "g", "i", "t", "/", "i", "n", "d", "e", "x">>

S_OwaLogon ==
    <<"/", "o", "w", "a", "/", "a", "u", "t", "h", "/",
      "l", "o", "g", "o", "n", ".", "a", "s", "p", "x">>

S_DIRC == <<"D", "I", "R", "C">>

S_OwaPrefix == <<"\"", "/", "o", "w", "a", "/">>

S_Auth == <<"a", "u", "t", "h", "/">>

S_TitleOpen == <<"<", "t", "i", "t", "l", "e">>

S_TitleClose == <<"<", "/", "t", "i", "t", "l", "e", ">">>

K_unknown == <<"u", "n", "k", "n", "o", "w", "n">>

K_server == <<"s", "e", "r", "v", "e", "r">>

K_status == <<"_", "s", "t", "a", "t", "u", "s">>

\* a str held in the headers mapping
PyStr(s) == [str |-> s]

IsPyStr(v) == Has(v, "str")

----------------------------------------------------------------------------
\* The headers dict, in insertion order

OdHas(h, k) == \E i \in 1..Len(h) : h[i][1] = k

OdGet(h, k) == h[CHOOSE i \in 1..Len(h) : h[i][1] = k][2]

OdPop(h, k) == SelectSeq(h, LAMBDA e : e[1] # k)

\* h[k] = v: an existing key keeps its place
OdSet(h, k, v) ==
    IF OdHas(h, k)
    THEN [i \in 1..Len(h) |-> IF h[i][1] = k THEN <<k, v>> ELSE h[i]]
    ELSE Append(h, <<k, v>>)

----------------------------------------------------------------------------
\* External collaborators (ivre.utils, ivre.xmlnmap), at their interface

\* utils.nmap_decode_data(text) -> bytes
NmapDecodeData(text) == [bytes |-> text]

\* str.encode() followed by utils.nmap_encode_data(bytes) -> text
NmapEncodeData(raw) == [encoded |-> raw]

\* create_ssl_cert(raw, b64encoded=True) -> (output, info); info is empty for
\* a certificate that does not decode
CreateSslCert(raw) ==
    IF raw = "certA"
    THEN [output |-> "Subject: commonName=a.example",
          info |-> <<[subject |-> "a.example", san |-> <<"b.example">>]>>]
    ELSE IF raw = "certB"
    THEN [output |-> "Subject: commonName=c.example",
          info |-> <<[subject |-> "c.example", san |-> <<>>]>>]
    ELSE [output |-> "", info |-> <<>>]

\* add_cert_hostnames(cert, hostnames): appends the names of the certificate
AddCertHostnames(cert, hostnames) ==
    hostnames
        \o <<[type |-> "cert-subject-cn", name |-> cert.subject]>>
        \o [i \in 1..Len(cert.san) |-> [type |-> "cert-san-dns", name |-> cert.san[i]]]

\* utils.match_nmap_svc_fp(banner, proto="tcp", probe="GetRequest"): the
\* fields of the first signature the banner matches, nothing when none does
MatchNmapSvcFp(banner) ==
    IF Len(banner) >= 6 /\ banner[6] = NmapDecodeData("nginx")
    THEN [service_name |-> "http", service_product |-> "nginx"]
    ELSE IF Len(banner) >= 6 /\ banner[6] = NmapDecodeData("squid")
    THEN [service_name |-> "http-proxy", service_product |-> "Squid http proxy"]
    ELSE EmptyDict

\* create_http_ls(body, url=url): a listing script for a directory index
\* page, None otherwise
CreateHttpLs(body, url) ==
    IF Contains(body, <<"I", "n", "d", "e", "x", " ", "o", "f">>)
    THEN [id |-> "http-ls", output |-> "Directory listing"]
    ELSE None

----------------------------------------------------------------------------
\* zgrap_parser_http, step by step

\* data.update(data.pop('result'))
Reconcile(d) ==
    IF Has(d, "result") THEN Update(Remove(d, "result"), d.result) ELSE d

needed_fields == {"request", "status_code", "status_line"}

missing_fields(resp) == needed_fields \ DOMAIN resp

BaseRecord ==
    [service_name |-> "http", service_method |-> "probed",
     state_state |-> "open", state_reason |-> "response", protocol |-> "tcp"]

\* mutant: the script is put first
AppendScript_Prepend(res, script) ==
    SetItem(res, "scripts", <<script>> \o Get(res, "scripts", <<>>))

\* res.setdefault('scripts', []).append(script)
AppendScript(res, script) ==
    SetItem(res, "scripts", Append(Get(res, "scripts", <<>>), script))

\* tls = req['tls_handshake'], else req['tls_log']['handshake_log'], else None
TlsOf(req) ==
    IF Has(req, "tls_handshake") THEN req.tls_handshake
    ELSE IF Has(req, "tls_log") /\ Has(req.tls_log, "handshake_log")
        THEN req.tls_log.handshake_log
    ELSE None

\* tls['server_certificates']['certificate']['raw'] raises no KeyError
HasCert(tls) ==
    /\ Has(tls, "server_certificates")
    /\ Has(tls.server_certificates, "certificate")
    /\ Has(tls.server_certificates.certificate, "raw")

\* for cert in info: add_cert_hostnames(cert, hostrec.setdefault('hostnames', []))
RECURSIVE AddInfoHostnames(_, _)
AddInfoHostnames(info, hrec) ==
    IF Len(info) = 0 THEN hrec
    ELSE AddInfoHostnames(
            Tail(info),
            SetItem(hrec, "hostnames",
                    AddCertHostnames(Head(info), Get(hrec, "hostnames", <<>>))))

\* mutant: the hostnames of the certificate are not added
CertStep_NoHostnames(res, hrec, c) ==
    IF Len(c.info) = 0 THEN [res |-> res, hostrec |-> hrec]
    ELSE [res |-> AppendScript(res,
                     [id |-> "ssl-cert", output |-> c.output]
                         @@ ("ssl-cert" :> c.info)),
          hostrec |-> hrec]

\* the ssl-cert script and the hostnames of a decoded certificate c
CertStep(res, hrec, c) ==
    IF Len(c.info) = 0 THEN [res |-> res, hostrec |-> hrec]
    ELSE [res |-> AppendScript(res,
                     [id |-> "ssl-cert", output |-> c.output]
                         @@ ("ssl-cert" :> c.info)),
          hostrec |-> AddInfoHostnames(c.info, hrec)]

\* the TLS step: [res, hostrec] after it
TlsStep(res, hrec, tls) ==
    IF tls = None THEN [res |-> res, hostrec |-> hrec]
    ELSE IF ~HasCert(tls)
    THEN [res |-> SetItem(res, "service_tunnel", "ssl"), hostrec |-> hrec]
    ELSE CertStep(SetItem(res, "service_tunnel", "ssl"), hrec,
                  CreateSslCert(tls.server_certificates.certificate.raw))

\* the port of a URL whose host has no port that parses
SchemePort(url) == IF Get(url, "scheme", "") = "https" THEN 443 ELSE 80

\* int(url['host'].split(':', 1)[1]) when ':' is in the host
HostPort(host, colon) ==
    IF colon # 0 THEN IntParse(SubSeq(host, colon + 1, Len(host)))
    ELSE [ok |-> FALSE, val |-> 0]

PortOr(parsed, url) == IF parsed.ok THEN parsed.val ELSE SchemePort(url)

\* the port of a request that carries a URL
UrlPort(url) ==
    PortOr(HostPort(Get(url, "host", <<>>), IndexFrom(Get(url, "host", <<>>), ":", 1)),
           url)

\* the port of a request that carries no URL
NoUrlPort(req) ==
    IF Truthy(Get(req, "tls_handshake", None)) \/ Truthy(Get(req, "tls_log", None))
    THEN 443
    ELSE 80

\* mutant: the port is not set
SetPort_Forgotten(res, port) == res

\* res['port'] = port
SetPort(res, port) == SetItem(res, "port", port)

\* mutant: url['path'][:-6]
GitRepository_StripSlash(addr, port, path) ==
    addr \o <<":">> \o IntToStr(port) \o DropLast(path, 6)

\* '%s:%d%s' % (hostrec['addr'], port, url['path'][:-5])
GitRepository(addr, port, path) ==
    addr \o <<":">> \o IntToStr(port) \o DropLast(path, 5)

\* the record returned for the repository found
GitRecord(res, port, repository) ==
    AppendScript(
        SetPort(res, port),
        [id |-> "http-git",
         output |-> <<"\n  ">> \o repository \o <<"\n    Git repository found!\n">>]
            @@ ("http-git" :>
                    <<("repository" :> repository)
                        @@ ("files-found" :> <<".git/index">>)>>))

\* the Git index detector, entered when the path ends with /.git/index
GitDetector(res, resp, url, port, hrec) ==
    IF resp.status_code # 200 THEN EmptyDict
    ELSE IF ~StartsWith(Get(resp, "body", <<>>), S_DIRC) THEN EmptyDict
    ELSE GitRecord(res, port, GitRepository(hrec.addr, port, url.path))

----------------------------------------------------------------------------
\* The OWA detector

VersionChars == DigitChars \cup {"."}

\* end (exclusive) of the run of digits and dots that starts at j
RECURSIVE RunEnd(_, _)
RunEnd(s, j) ==
    IF j > Len(s) \/ s[j] \notin VersionChars THEN j ELSE RunEnd(s, j + 1)

\* (?:[0-9]+\.)+[0-9]+
IsDotted(v) ==
    LET parts == Split(v, ".")
    IN  Len(parts) >= 2 /\ \A i \in 1..Len(parts) : IsDigits(parts[i])

NoMatch == [ok |-> FALSE, version |-> <<>>, end |-> 0]

\* ((?:[0-9]+\.)+[0-9]+)/ at j. The character after the group is "/", which
\* is neither a digit nor a dot, so the group is the whole run that starts at j.
VersionAt(s, j) ==
    LET e == RunEnd(s, j)
        v == SubSeq(s, j, e - 1)
    IN  IF IsDotted(v) /\ e <= Len(s) /\ s[e] = "/"
        THEN [ok |-> TRUE, version |-> v, end |-> e + 1]
        ELSE NoMatch

\* the rest of _EXPR_OWA_VERSION at j, after "/owa/: with auth/ first, and
\* without it when that does not match
AfterOwaPrefix(s, j, withAuth) ==
    IF withAuth.ok THEN withAuth ELSE VersionAt(s, j)

\* _EXPR_OWA_VERSION matched at i: "/owa/(?:auth/)? then the version group
MatchOwaAt(s, i) ==
    IF ~StartsWith(SubSeq(s, i, Len(s)), S_OwaPrefix) THEN NoMatch
    ELSE AfterOwaPrefix(
            s, i + Len(S_OwaPrefix),
            IF StartsWith(SubSeq(s, i + Len(S_OwaPrefix), Len(s)), S_Auth)
            THEN VersionAt(s, i + Len(S_OwaPrefix) + Len(S_Auth))
            ELSE NoMatch)

\* the matches from i on, given the match m at i
RECURSIVE OwaVersions(_, _)
OwaNext(s, i, m) ==
    IF m.ok THEN {m.version} \cup OwaVersions(s, m.end)
    ELSE OwaVersions(s, i + 1)

\* set(m.group(1) for m in _EXPR_OWA_VERSION.finditer(body)), scanning from i
OwaVersions(s, i) ==
    IF i > Len(s) THEN {} ELSE OwaNext(s, i, MatchOwaAt(s, i))

\* [int(x) for x in v.split('.')]
VersionKey(v) ==
    LET parts == Split(v, ".")
    IN  [i \in 1..Len(parts) |-> DigitsVal(parts[i])]

\* a < b for Python lists of integers
RECURSIVE ListLess(_, _)
ListLess(a, b) ==
    IF Len(a) = 0 THEN Len(b) > 0
    ELSE IF Len(b) = 0 THEN FALSE
    ELSE IF a[1] # b[1] THEN a[1] < b[1]
    ELSE ListLess(Tail(a), Tail(b))

\* The order in which a set of texts is iterated depends on the hash seed of
\* the process: one of two opposite orders stands for it.
CharCode(c) == IF c = "." THEN 10 ELSE DigitVal(c)

IterBefore(a, b, seed) ==
    LET ca == [i \in 1..Len(a) |-> CharCode(a[i])]
        cb == [i \in 1..Len(b) |-> CharCode(b[i])]
    IN  IF seed = 0 THEN ListLess(ca, cb) ELSE ListLess(cb, ca)

\* mutant: sorted(version), the order of the texts
SortsBefore_Text(a, b, seed) == IterBefore(a, b, 0)

\* the order of sorted(version, key=...): by key, equal keys in iteration order
SortsBefore(a, b, seed) ==
    \/ ListLess(VersionKey(a), VersionKey(b))
    \/ /\ VersionKey(a) = VersionKey(b)
       /\ IterBefore(a, b, seed)

RECURSIVE SortedVersions(_, _)
SortedVersions(V, seed) ==
    IF V = {} THEN <<>>
    ELSE
        LET m == CHOOSE x \in V : \A y \in V \ {x} : SortsBefore(x, y, seed)
        IN  <<m>> \o SortedVersions(V \ {m}, seed)

\* the output text of the http-app script
OwaOutput(path, version) ==
    IF Len(version) > 1
    THEN <<"OWA: path ">> \o path \o <<", version ">>
            \o Join(version, <<" / ">>) \o <<" (multiple versions found!)">>
    ELSE <<"OWA: path ">> \o path \o <<", version ">> \o version[1]

\* the record returned for the sorted versions found
OwaRecord(res, port, path, version) ==
    AppendScript(
        SetPort(res, port),
        [id |-> "http-app", output |-> OwaOutput(path, version)]
            @@ ("http-app" :>
                    <<[path |-> path, application |-> "OWA",
                       version |-> version[1]]>>))

OwaFound(res, url, port, found, seed) ==
    IF found = {} THEN EmptyDict
    ELSE OwaRecord(res, port, DropLast(url.path, 15), SortedVersions(found, seed))

\* the OWA detector, entered when the path ends with /owa/auth/logon.aspx
OwaDetector(res, resp, url, port, seed) ==
    IF resp.status_code # 200 THEN EmptyDict
    ELSE OwaFound(res, url, port, OwaVersions(Get(resp, "body", <<>>), 1), seed)

----------------------------------------------------------------------------
\* The generic path

\* for unk in headers.pop('unknown'): headers[unk['key']] = unk['value']
\* [headers, raised]: the mapping as the loop leaves it, and the exception
\* it raises, if any, when an entry is a str or has no such key
RECURSIVE FlattenUnknown(_, _)
FlattenUnknown(h, bucket) ==
    IF Len(bucket) = 0 THEN [headers |-> h, raised |-> ""]
    ELSE
        LET unk == Head(bucket)
        IN  IF IsPyStr(unk) THEN [headers |-> h, raised |-> "TypeError"]
            ELSE IF ~Has(unk, "key") \/ ~Has(unk, "value")
                THEN [headers |-> h, raised |-> "KeyError"]
            ELSE FlattenUnknown(OdSet(h, unk.key, unk.value), Tail(bucket))

ValuePairs(hdr, values) ==
    [i \in 1..Len(values) |-> [name |-> hdr, value |-> values[i]]]

\* the {'name': hdr, 'value': val} entries, in the order of the mapping
RECURSIVE HeaderPairs(_)
HeaderPairs(h) ==
    IF Len(h) = 0 THEN <<>>
    ELSE ValuePairs(Replace(h[1][1], "_", "-"), h[1][2]) \o HeaderPairs(Tail(h))

\* '%s: %s' % (hdr, val) for each entry
HeaderLines(pairs) ==
    [i \in 1..Len(pairs) |-> pairs[i].name \o <<": ", pairs[i].value.str>>]

\* the text of the http-headers script: the lines joined, after the request
\* type when the request has a method
HeadersOutput(line, pairs, req) ==
    Join(<<line>> \o HeaderLines(pairs)
            \o (IF Get(req, "method", "") # ""
                THEN << <<>>, <<"(Request type: ", req.method, ")">> >>
                ELSE <<>>),
         <<"\n">>)

\* the http-server-header script and the banner line of a server header
ServerStep(res, banner, server) ==
    IF Len(server) = 0 THEN [res |-> res, banner |-> banner]
    ELSE [res |-> AppendScript(res,
                     [id |-> "http-server-header", output |-> server[1]]
                         @@ ("http-server-header" :> server)),
          banner |-> banner \o <<"Server: ", NmapDecodeData(server[1].str),
                                 "\r\n\r\n">>]

\* the scripts of the flattened headers; http_hdrs starts with the status
\* line, so it is never empty
HeaderScripts(res, req, banner, headers, line, pairs) ==
    ServerStep(
        AppendScript(res,
            [id |-> "http-headers", output |-> HeadersOutput(line, pairs, req)]
                @@ ("http-headers" :>
                        (<<[name |-> K_status, value |-> line]>> \o pairs))),
        banner,
        IF OdHas(headers, K_server) THEN OdGet(headers, K_server) ELSE <<>>)

\* the block after the unknown bucket was flattened (fl)
AfterFlatten(res, resp, req, banner, fl) ==
    IF fl.raised # ""
    THEN [res |-> res, banner |-> banner]
    ELSE HeaderScripts(res, req, banner, fl.headers,
                       <<resp.protocol.name, " ", resp.status_line>>,
                       HeaderPairs(fl.headers))

\* if 'unknown' in headers: the bucket is popped and flattened
Flatten(headers) ==
    IF OdHas(headers, K_unknown)
    THEN FlattenUnknown(OdPop(headers, K_unknown), OdGet(headers, K_unknown))
    ELSE [headers |-> headers, raised |-> ""]

\* _EXPR_TITLE from the ">" that ends the opening tag (gt = 0: there is none)
TitleFrom(s, gt, lt) ==
    IF gt # 0 /\ lt # 0 /\ lt + 7 <= Len(s)
              /\ Lower(SubSeq(s, lt, lt + 7)) = S_TitleClose
    THEN [ok |-> TRUE, title |-> SubSeq(s, gt + 1, lt - 1)]
    ELSE [ok |-> FALSE, title |-> <<>>]

TitleTag(s, gt) == TitleFrom(s, gt, IF gt = 0 THEN 0 ELSE IndexFrom(s, "<", gt + 1))

\* _EXPR_TITLE matched at i: <title[^>]*>([^<]*)</title>, ignoring case
TitleAt(s, i) ==
    IF ~(i + 5 <= Len(s) /\ Lower(SubSeq(s, i, i + 5)) = S_TitleOpen)
    THEN [ok |-> FALSE, title |-> <<>>]
    ELSE TitleTag(s, IndexFrom(s, ">", i + 6))

\* _EXPR_TITLE.search(body), scanning from i
RECURSIVE TitleSearch(_, _)
TitleNext(s, i, m) == IF m.ok THEN m ELSE TitleSearch(s, i + 1)

TitleSearch(s, i) ==
    IF i > Len(s) THEN [ok |-> FALSE, title |-> <<>>]
    ELSE TitleNext(s, i, TitleAt(s, i))

\* the http-title script of a match
TitleStep(res, match) ==
    IF match.ok
    THEN AppendScript(res,
            [id |-> "http-title", output |-> match.title]
                @@ ("http-title" :> [title |-> match.title]))
    ELSE res

\* the listing script, when there is one
ListingStep(res, script_http_ls) ==
    IF script_http_ls # None THEN AppendScript(res, script_http_ls) ELSE res

\* the scripts of a body
BodyScripts(res, body, url) ==
    ListingStep(
        TitleStep(
            AppendScript(res, [id |-> "http-content", output |-> NmapEncodeData(body)]),
            TitleSearch(body, 1)),
        CreateHttpLs(body, url))

\* the block entered when resp.get('body') is true
BodyStep(res, resp, url) ==
    IF Len(Get(resp, "body", <<>>)) = 0 THEN res
    ELSE BodyScripts(res, resp.body, url)

\* what a call leaves behind: the value returned (or the exception raised),
\* the two arguments as the call leaves them, the warnings logged
Out(ret, d, hrec, w) == [ret |-> ret, data |-> d, hostrec |-> hrec, warnings |-> w]

\* res.update(info) when the banner matches a signature
MatchStep(res, info) == IF Truthy(info) THEN Update(res, info) ELSE res

\* the end of the generic path, from the fingerprint match on; hs is what
\* the headers block made of the record and of the banner
GenericEnd(hs, resp, url) ==
    BodyStep(MatchStep(hs.res, MatchNmapSvcFp(hs.banner)), resp, url)

\* the generic path with headers; the response keeps the flattened mapping
GenericHeaders(res, d, hrec, resp, req, url, banner, fl) ==
    Out(IF fl.raised # "" THEN Raised(fl.raised)
        ELSE GenericEnd(AfterFlatten(res, resp, req, banner, fl), resp, url),
        [d EXCEPT !.response = [@ EXCEPT !.headers = fl.headers]],
        hrec, 0)

\* the generic path from the banner on
GenericBanner(res, d, hrec, resp, req, url, banner) ==
    IF Has(resp, "headers") /\ Len(resp.headers) > 0
    THEN GenericHeaders(res, d, hrec, resp, req, url, banner, Flatten(resp.headers))
    ELSE Out(GenericEnd([res |-> res, banner |-> banner], resp, url), d, hrec, 0)

\* from res['port'] = port to the final return
Generic(res, d, hrec, resp, req, url, port) ==
    IF ~(Has(resp, "protocol") /\ Has(resp.protocol, "name"))
    THEN Out(Raised("KeyError"), d, hrec, 0)
    ELSE GenericBanner(
            SetPort(res, port), d, hrec, resp, req, url,
            <<NmapDecodeData(resp.protocol.name), " ",
              NmapDecodeData(resp.status_line), "\r\n">>)

\* the code after the TLS step (t); port is the port of the URL, or of the
\* request when it carries none
Dispatch(d, resp, req, url, t, port, seed) ==
    IF Truthy(url) /\ ~Has(url, "path")
    THEN Out(Raised("AttributeError"), d, t.hostrec, 0)
    ELSE IF Truthy(url) /\ EndsWith(url.path, S_GitIndex)
    THEN Out(GitDetector(t.res, resp, url, port, t.hostrec), d, t.hostrec, 0)
    ELSE IF Truthy(url) /\ EndsWith(url.path, S_OwaLogon)
    THEN Out(OwaDetector(t.res, resp, url, port, seed), d, t.hostrec, 0)
    ELSE Generic(t.res, d, t.hostrec, resp, req, url, port)

\* the code after the required fields were found
Parse(d, resp, req, url, hrec, seed) ==
    Dispatch(d, resp, req, url,
             TlsStep(BaseRecord, hrec, TlsOf(req)),
             IF Truthy(url) THEN UrlPort(url) ELSE NoUrlPort(req),
             seed)

\* the code after the "result" wrapper was merged
Reconciled(d, hrec, seed) ==
    IF ~Has(d, "response") THEN Out(EmptyDict, d, hrec, 1)
    ELSE IF missing_fields(d.response) # {} THEN Out(EmptyDict, d, hrec, 1)
    ELSE Parse(d, d.response, d.response.request,
               Get(d.response.request, "url", None), hrec, seed)

zgrap_parser_http(d0, hrec, seed) ==
    IF ~Truthy(d0) THEN Out(EmptyDict, d0, hrec, 0)
    ELSE Reconciled(Reconcile(d0), hrec, seed)

----------------------------------------------------------------------------
\* Raw results and host records the parser is called with

T_Addr == <<"1", "0", ".", "0", ".", "0", ".", "1">>

UrlKinds ==
    {"none", "empty", "port", "plain", "nopath", "git", "gitport", "owa", "owahttp"}

\* the request's url, for the kinds that carry one
UrlOf(kind) ==
    CASE kind = "empty" -> EmptyDict
      [] kind = "port" ->
            [host |-> <<"h", ":", "8", "0", "8", "0">>, scheme |-> "http",
             path |-> <<"/">>]
      [] kind = "plain" ->
            [host |-> <<"h">>, scheme |-> "https",
             path |-> <<"/", "i", "n", "d", "e", "x", ".", "h", "t", "m", "l">>]
      [] kind = "nopath" -> [host |-> <<"h">>, scheme |-> "http"]
      [] kind = "git" ->
            [host |-> <<"h">>, scheme |-> "https",
             path |-> <<"/", "x", "/", ".", "g", "i", "t", "/",
                        "i", "n", "d", "e", "x">>]
      [] kind = "gitport" ->
            [host |-> <<"h", ":", "8", "1">>,
             path |-> <<"/", ".", "g", "i", "t", "/", "i", "n", "d", "e", "x">>]
      [] kind = "owa" ->
            [host |-> <<"h", ":", "x">>, scheme |-> "https",
             path |-> <<"/", "o", "w", "a", "/", "a", "u", "t", "h", "/",
                        "l", "o", "g", "o", "n", ".", "a", "s", "p", "x">>]
      [] kind = "owahttp" ->
            [scheme |-> "http",
             path |-> <<"/", "m", "/", "o", "w", "a", "/", "a", "u", "t", "h", "/",
                        "l", "o", "g", "o", "n", ".", "a", "s", "p", "x">>]

TlsKinds ==
    {"none", "hs", "hs_empty", "hs_nocert", "hs_badcert", "log", "log_nohs",
     "log_empty"}

Handshake(raw) == [server_certificates |-> [certificate |-> [raw |-> raw]]]

\* the request's TLS fields: zgrab's tls_handshake, zgrab2's tls_log
TlsFieldsOf(kind) ==
    CASE kind = "none" -> EmptyDict
      [] kind = "hs" -> [tls_handshake |-> Handshake("certA")]
      [] kind = "hs_empty" -> [tls_handshake |-> EmptyDict]
      [] kind = "hs_nocert" -> [tls_handshake |-> [server_certificates |-> EmptyDict]]
      [] kind = "hs_badcert" -> [tls_handshake |-> Handshake("garbage")]
      [] kind = "log" -> [tls_log |-> [handshake_log |-> Handshake("certB")]]
      [] kind = "log_nohs" -> [tls_log |-> [heartbleed_log |-> EmptyDict]]
      [] kind = "log_empty" -> [tls_log |-> EmptyDict]

BodyKinds ==
    {"none", "plain", "dirc", "owa2", "owadup", "owatie", "listing", "title"}

BodyOf(kind) ==
    CASE kind = "plain" -> <<"x">>
      [] kind = "dirc" -> <<"D", "I", "R", "C", "x">>
      [] kind = "owa2" ->
            <<"\"", "/", "o", "w", "a", "/", "a", "u", "t", "h", "/",
              "1", "5", ".", "1", ".", "2", ".", "3", "/", "\"", " ",
              "\"", "/", "o", "w", "a", "/", "2", ".", "0", ".", "0", ".", "0",
              "/", "\"">>
      [] kind = "owadup" ->
            <<"\"", "/", "o", "w", "a", "/", "a", "u", "t", "h", "/",
              "1", ".", "2", "/", "\"", "/", "o", "w", "a", "/", "1", ".", "2", "/">>
      [] kind = "owatie" ->
            <<"\"", "/", "o", "w", "a", "/", "1", ".", "0", "/",
              "\"", "/", "o", "w", "a", "/", "0", "1", ".", "0", "/">>
      [] kind = "listing" ->
            <<"<", "t", "i", "t", "l", "e", ">", "I", "n", "d", "e", "x", " ",
              "o", "f", " ", "/", "<", "/", "t", "i", "t", "l", "e", ">">>
      [] kind = "title" ->
            <<"<", "T", "I", "T", "L", "E", " ", "a", ">", "T",
              "<", "/", "t", "i", "t", "l", "e", ">">>

HeaderKinds == {"none", "server", "squid", "unknown", "named_unknown"}

K_content_type == <<"c", "o", "n", "t", "e", "n", "t", "_", "t", "y", "p", "e">>

K_x_custom == <<"x", "-", "c", "u", "s", "t", "o", "m">>

\* the response's headers; zgrab2 puts the headers it has no field for in
\* the "unknown" bucket, as {key, value} entries
HeadersOf(kind) ==
    CASE kind = "server" -> << <<K_server, <<PyStr("nginx")>> >> >>
      [] kind = "squid" ->
            << <<K_unknown, << [key |-> K_x_custom, value |-> <<PyStr("1")>>] >> >>,
               <<K_server, <<PyStr("squid"), PyStr("squid/4")>> >> >>
      [] kind = "unknown" ->
            << <<K_content_type, <<PyStr("text/html")>> >>,
               <<K_unknown, << [key |-> K_x_custom, value |-> <<PyStr("1")>>] >> >> >>
      [] kind = "named_unknown" ->
            << <<K_unknown, << [key |-> K_unknown, value |-> <<PyStr("1")>>] >> >> >>

ProtoKinds == {"named", "none", "noname"}

ShapeKinds ==
    {"full", "null", "empty", "noresponse", "norequest", "nostatus",
     "nostatusline", "bare"}

Opt(present, k, v) == IF present THEN (k :> v) ELSE EmptyDict

RequestOf(c) ==
    Opt(c.url # "none", "url", UrlOf(c.url))
        @@ TlsFieldsOf(c.tls)
        @@ Opt(c.method, "method", "GET")

ResponseOf(c) ==
    Opt(c.shape # "norequest", "request", RequestOf(c))
        @@ Opt(c.shape # "nostatus", "status_code", c.status)
        @@ Opt(c.shape # "nostatusline", "status_line", "200 OK")
        @@ Opt(c.proto = "named", "protocol", [name |-> "HTTP/1.1"])
        @@ Opt(c.proto = "noname", "protocol", EmptyDict)
        @@ Opt(c.hdr # "none", "headers", HeadersOf(c.hdr))
        @@ Opt(c.body # "none", "body", BodyOf(c.body))

\* the raw result: zgrab's shape, or zgrab2's with its "result" wrapper
DataOf(c) ==
    IF c.shape = "null" THEN None
    ELSE IF c.shape = "empty" THEN EmptyDict
    ELSE
        LET inner == [timestamp |-> "2020-01-01"]
                        @@ Opt(c.shape # "noresponse", "response",
                               IF c.shape = "bare" THEN EmptyDict ELSE ResponseOf(c))
        IN  IF c.wrap THEN [status |-> "success", result |-> inner] ELSE inner

Choice(url, tls, status, body, hdr, proto, method, wrap, shape) ==
    [url |-> url, tls |-> tls, status |-> status, body |-> body, hdr |-> hdr,
     proto |-> proto, method |-> method, wrap |-> wrap, shape |-> shape]

\* results that exercise the detectors and the port inference
DetectorInputs ==
    {Choice(u, t, st, b, "server", "named", TRUE, w, "full") :
        u \in UrlKinds, t \in {"none", "hs", "log"}, st \in {200, 404},
        b \in BodyKinds, w \in BOOLEAN}

\* results that exercise the TLS lookups
TlsInputs ==
    {Choice(u, t, 200, "plain", "none", "named", FALSE, w, "full") :
        u \in UrlKinds, t \in TlsKinds, w \in BOOLEAN}

\* results that exercise the generic path
GenericInputs ==
    {Choice(u, t, 200, b, h, p, m, w, "full") :
        u \in {"none", "plain"}, t \in {"none", "hs"},
        b \in {"none", "listing", "title"}, h \in HeaderKinds, p \in ProtoKinds,
        m \in BOOLEAN, w \in BOOLEAN}

\* results without the fields the parser needs
ShapeInputs ==
    {Choice("git", "hs", 200, "dirc", "server", "named", TRUE, w, s) :
        w \in BOOLEAN, s \in ShapeKinds}

Inputs == DetectorInputs \cup TlsInputs \cup GenericInputs \cup ShapeInputs

HostKinds == {"new", "known", "nolist"}

HostOf(kind) ==
    [addr |-> T_Addr, source |-> "zgrab"]
        @@ Opt(kind # "nolist", "hostnames",
               IF kind = "known"
               THEN <<[type |-> "user", name |-> "www.example"]>>
               ELSE <<>>)

----------------------------------------------------------------------------
\* The caller: successive calls of the parser with one raw result object

Called(mode, d, hrec, o) ==
    /\ data' = o.data
    /\ hostrec' = o.hostrec
    /\ hist' = Append(hist,
                  [mode |-> mode, dataIn |-> d, ctxIn |-> hrec, ret |-> o.ret,
                   dataOut |-> o.data, ctxOut |-> o.hostrec,
                   warnings |-> o.warnings])
    /\ UNCHANGED hashseed

Call(mode, d, hrec) == Called(mode, d, hrec, zgrap_parser_http(d, hrec, hashseed))

Init ==
    \E c \in Inputs, k \in HostKinds :
        /\ data = DataOf(c)
        /\ hostrec = HostOf(k)
        /\ hist = <<>>
        /\ hashseed \in (IF c.body = "owatie" THEN {0, 1} ELSE {0})

\* the parser is called with the raw result and the host record
FirstCall ==
    /\ Len(hist) = 0
    /\ Call("first", data, hostrec)

\* it is called again with the same raw result object and the same host record
CallAgain ==
    /\ Len(hist) >= 1
    /\ Len(hist) < MaxCalls
    /\ Call("same", data, hostrec)

\* it is called again with the same raw result object and a fresh host
\* record, equal to the one the first call was given
CallFresh ==
    /\ Len(hist) >= 1
    /\ Len(hist) < MaxCalls
    /\ Call("fresh", data, hist[1].ctxIn)

Next == FirstCall \/ CallAgain \/ CallFresh

Spec == Init /\ [][Next]_vars

----------------------------------------------------------------------------
\* What the claims speak of: a call (an entry of hist), its raw result as
\* the required-field check sees it, and the record it returned

Entries == 1..Len(hist)

WorkOf(e) == IF Truthy(e.dataIn) THEN Reconcile(e.dataIn) ELSE EmptyDict

\* response and its fields request, status_code, status_line are there
IsComplete(e) ==
    Has(WorkOf(e), "response") /\ missing_fields(WorkOf(e).response) = {}

RespIn(e) == WorkOf(e).response

ReqIn(e) == RespIn(e).request

UrlIn(e) == Get(ReqIn(e), "url", None)

BodyIn(e) == Get(RespIn(e), "body", <<>>)

HasUrl(e) == IsComplete(e) /\ Truthy(UrlIn(e))

PathEnds(e, suffix) ==
    HasUrl(e) /\ Has(UrlIn(e), "path") /\ EndsWith(UrlIn(e).path, suffix)

GitFail(e) ==
    /\ PathEnds(e, S_GitIndex)
    /\ (RespIn(e).status_code # 200 \/ ~StartsWith(BodyIn(e), S_DIRC))

OwaFail(e) ==
    /\ PathEnds(e, S_OwaLogon)
    /\ (RespIn(e).status_code # 200 \/ OwaVersions(BodyIn(e), 1) = {})

\* a record was returned, and it is not {}
IsRecord(r) == ~IsRaised(r) /\ r # EmptyDict

ScriptsOf(r) == Get(r, "scripts", <<>>)

ScriptIds(r) == [j \in 1..Len(ScriptsOf(r)) |-> ScriptsOf(r)[j].id]

HostnamesOf(hrec) == Get(hrec, "hostnames", <<>>)

IsPrefix(p, s) == Len(p) <= Len(s) /\ SubSeq(s, 1, Len(p)) = p

\* what a call appended to the hostname list
Appended(e) ==
    SubSeq(HostnamesOf(e.ctxOut), Len(HostnamesOf(e.ctxIn)) + 1,
           Len(HostnamesOf(e.ctxOut)))

----------------------------------------------------------------------------
\* C1: the first call, on a well-formed raw result however incomplete,
\* returns a record or {} and raises no exception.
C1_NeverRaises == Len(hist) >= 1 => ~IsRaised(hist[1].ret)

BaseFields ==
    {"service_name", "service_method", "state_state", "state_reason", "protocol"}

\* C2: every record returned that is not {} has port and the base fields,
\* on the Git, the OWA and the generic path, also after the fields of a
\* fingerprint match were merged in.
C2_PortSet ==
    \A i \in Entries :
        IsRecord(hist[i].ret) => (BaseFields \cup {"port"}) \subseteq DOMAIN hist[i].ret

\* C2: a record of the generic path that carries the fields of a match
C2_Witness ==
    \E i \in Entries :
        /\ IsRecord(hist[i].ret)
        /\ Has(hist[i].ret, "service_product")
        /\ hist[i].ret.port = 8080

C3_Documented(e) == ~IsComplete(e) \/ GitFail(e) \/ OwaFail(e)

\* C3: a call on a non-empty raw result returns {} exactly when a required
\* field is missing (one warning is then logged) or a detector's path
\* matches with the wrong status or body, and returns a record that is not
\* {} in every other case; an empty or null raw result gives {}.
C3_EmptyExactly ==
    \A i \in Entries :
        IF ~Truthy(hist[i].dataIn) THEN hist[i].ret = EmptyDict
        ELSE /\ (hist[i].ret = EmptyDict) <=> C3_Documented(hist[i])
             /\ ~IsComplete(hist[i]) => hist[i].warnings = 1
             /\ ~C3_Documented(hist[i]) => IsRecord(hist[i].ret)

\* the Git detector's case: the path ends with /.git/index, the status is
\* 200 and the body starts with DIRC
C4_Case(e) ==
    /\ PathEnds(e, S_GitIndex)
    /\ RespIn(e).status_code = 200
    /\ StartsWith(BodyIn(e), S_DIRC)

\* the record of the Git detector, but for its repository string
C4_GitRecord(e) ==
    /\ IsRecord(e.ret)
    /\ Has(e.ret, "port")
    /\ ScriptIds(e.ret) \in {<<"http-git">>, <<"ssl-cert", "http-git">>}
    /\ Len(ScriptsOf(e.ret)[Len(ScriptsOf(e.ret))]["http-git"]) = 1
    /\ ScriptsOf(e.ret)[Len(ScriptsOf(e.ret))]["http-git"][1]["files-found"]
            = <<".git/index">>

C4_RepositoryOf(e) ==
    ScriptsOf(e.ret)[Len(ScriptsOf(e.ret))]["http-git"][1]["repository"]

\* C4, as amended: in the Git detector's case the record has port set and,
\* after the ssl-cert script if there is one, the one script http-git, with
\* files-found [".git/index"] and the repository "<address>:<port>" followed
\* by the path without its last five characters ("index"): it ends in ".git/".
C4_RepositoryKeepsSlash ==
    \A i \in Entries :
        C4_Case(hist[i]) =>
            /\ C4_GitRecord(hist[i])
            /\ C4_RepositoryOf(hist[i])
                    = hist[i].ctxIn.addr \o <<":">> \o IntToStr(hist[i].ret.port)
                        \o SubSeq(UrlIn(hist[i]).path, 1,
                                  Len(UrlIn(hist[i]).path) - Len(<<"i", "n", "d", "e", "x">>))
            /\ EndsWith(C4_RepositoryOf(hist[i]), <<".", "g", "i", "t", "/">>)

\* C4: path /x/.git/index over https, with a certificate: 10.0.0.1:443/x/.git/
C4_Witness ==
    \E i \in Entries :
        /\ C4_Case(hist[i])
        /\ ScriptIds(hist[i].ret) = <<"ssl-cert", "http-git">>
        /\ C4_RepositoryOf(hist[i])
                = <<"1", "0", ".", "0", ".", "0", ".", "1", ":", "4", "4", "3",
                    "/", "x", "/", ".", "g", "i", "t", "/">>

\* C4, as claimed: as above, but the repository is "<address>:<port>"
\* followed by the path without its trailing "/index": it ends in ".git".
C4_RepositoryEndsGit ==
    \A i \in Entries :
        C4_Case(hist[i]) =>
            /\ C4_GitRecord(hist[i])
            /\ C4_RepositoryOf(hist[i])
                    = hist[i].ctxIn.addr \o <<":">> \o IntToStr(hist[i].ret.port)
                        \o SubSeq(UrlIn(hist[i]).path, 1,
                                  Len(UrlIn(hist[i]).path)
                                    - Len(<<"/", "i", "n", "d", "e", "x">>))
            /\ EndsWith(C4_RepositoryOf(hist[i]), <<".", "g", "i", "t">>)

C5_HostPortText(e) ==
    SubSeq(Get(UrlIn(e), "host", <<>>),
           IndexFrom(Get(UrlIn(e), "host", <<>>), ":", 1) + 1,
           Len(Get(UrlIn(e), "host", <<>>)))

C5_Port(e) ==
    IF HasUrl(e)
    THEN IF /\ IndexFrom(Get(UrlIn(e), "host", <<>>), ":", 1) # 0
            /\ IntParse(C5_HostPortText(e)).ok
         THEN IntParse(C5_HostPortText(e)).val
         ELSE IF Get(UrlIn(e), "scheme", "") = "https" THEN 443 ELSE 80
    ELSE IF Has(e.ret, "service_tunnel") THEN 443 ELSE 80

\* C5: the port of a record is the integer after ":" in the URL's host when
\* it parses, else 443 for the scheme https and 80 otherwise; without a URL
\* it is 443 if TLS handshake data was found, which is when service_tunnel
\* is set, and 80 otherwise.
C5_PortInference ==
    \A i \in Entries :
        (IsComplete(hist[i]) /\ IsRecord(hist[i].ret))
            => hist[i].ret.port = C5_Port(hist[i])

\* C6: a call leaves the raw result as it was, leaves every field of the
\* host record but the hostname list as it was, and only appends to the
\* hostname list.
C6_Frame ==
    \A i \in Entries :
        /\ hist[i].dataOut = hist[i].dataIn
        /\ Remove(hist[i].ctxOut, "hostnames") = Remove(hist[i].ctxIn, "hostnames")
        /\ IsPrefix(HostnamesOf(hist[i].ctxIn), HostnamesOf(hist[i].ctxOut))

\* the OWA detector's case: the path ends with /owa/auth/logon.aspx, the
\* status is 200 and the body has version markers
C7_Case(e) ==
    /\ PathEnds(e, S_OwaLogon)
    /\ RespIn(e).status_code = 200
    /\ OwaVersions(BodyIn(e), 1) # {}

C7_App(e) == ScriptsOf(e.ret)[Len(ScriptsOf(e.ret))]

C7_Multiple == <<" (multiple versions found!)">>

\* C7: in the OWA detector's case, with V the distinct versions of the body,
\* the version reported is an element of V that none is numerically below,
\* the output names every element of V and says "(multiple versions found!)"
\* exactly when V has several, and the record holds the one script http-app
\* (after ssl-cert if there is one) and nothing of the generic path.
C7_OwaVersion ==
    \A i \in Entries :
        C7_Case(hist[i]) =>
            /\ IsRecord(hist[i].ret)
            /\ ScriptIds(hist[i].ret) \in {<<"http-app">>, <<"ssl-cert", "http-app">>}
            /\ Len(C7_App(hist[i])["http-app"]) = 1
            /\ C7_App(hist[i])["http-app"][1].version \in OwaVersions(BodyIn(hist[i]), 1)
            /\ \A w \in OwaVersions(BodyIn(hist[i]), 1) :
                /\ ~ListLess(VersionKey(w),
                             VersionKey(C7_App(hist[i])["http-app"][1].version))
                /\ Contains(C7_App(hist[i]).output, w)
            /\ Contains(C7_App(hist[i]).output, C7_Multiple)
                    <=> Cardinality(OwaVersions(BodyIn(hist[i]), 1)) > 1
            /\ DOMAIN hist[i].ret \subseteq
                    (BaseFields \cup {"port", "scripts", "service_tunnel"})

\* C7: markers 15.1.2.3 and 2.0.0.0: both are named, 2.0.0.0 is reported
C7_Witness ==
    \E i \in Entries :
        /\ C7_Case(hist[i])
        /\ OwaVersions(BodyIn(hist[i]), 1)
                = {<<"1", "5", ".", "1", ".", "2", ".", "3">>,
                   <<"2", ".", "0", ".", "0", ".", "0">>}
        /\ C7_App(hist[i])["http-app"][1].version = <<"2", ".", "0", ".", "0", ".", "0">>
        /\ Contains(C7_App(hist[i]).output, C7_Multiple)

\* the place of a script in the order of detection
C8_Rank(id) ==
    CASE id = "ssl-cert" -> 0
      [] id \in {"http-git", "http-app", "http-headers"} -> 1
      [] id = "http-server-header" -> 2
      [] id = "http-content" -> 3
      [] id = "http-title" -> 4
      [] OTHER -> 5

C8_Ordered(ids) ==
    /\ \A j \in 1..Len(ids) : ids[j] = "ssl-cert" => j = 1
    /\ \A j, k \in 1..Len(ids) : j < k => C8_Rank(ids[j]) < C8_Rank(ids[k])
    /\ (\E j \in 1..Len(ids) : ids[j] \in {"http-git", "http-app"})
            => ids \in {<<ids[Len(ids)]>>, <<"ssl-cert", ids[Len(ids)]>>}

\* C8: in every record returned, ssl-cert, if there, is the first script; a
\* detector that matched adds its one script and nothing of the generic
\* path follows; the generic path's scripts come in the order http-headers,
\* http-server-header, http-content, http-title, listing, each at most once.
C8_ScriptOrder ==
    \A i \in Entries : IsRecord(hist[i].ret) => C8_Ordered(ScriptIds(hist[i].ret))

\* C8: a record with all six scripts
C8_Witness ==
    \E i \in Entries :
        /\ IsRecord(hist[i].ret)
        /\ ScriptIds(hist[i].ret)
                = <<"ssl-cert", "http-headers", "http-server-header",
                    "http-content", "http-title", "http-ls">>

\* C9: a later call with the raw result the first call was given, against a
\* fresh host record equal to the first call's, returns what the first call
\* returned and leaves the host record as the first call left it.
C9_Idempotent ==
    \A i \in Entries :
        hist[i].mode = "fresh" =>
            /\ hist[i].ret = hist[1].ret
            /\ hist[i].ctxOut = hist[1].ctxOut

\* the result carries a certificate that decodes
C10_Decodable(e) ==
    /\ TlsOf(ReqIn(e)) # None
    /\ HasCert(TlsOf(ReqIn(e)))
    /\ Len(CreateSslCert(TlsOf(ReqIn(e)).server_certificates.certificate.raw).info) > 0

\* C10: a call that returns {} for an empty raw result or a missing field
\* leaves the host record as it was; a call that returns {} because a
\* detector's path matched with the wrong status or body, on a result whose
\* certificate decodes, leaves the certificate's hostnames appended to the
\* hostname list (and returns no ssl-cert script).
C10_EmptyButAppended ==
    \A i \in Entries :
        /\ ~IsComplete(hist[i]) =>
                (hist[i].ret = EmptyDict /\ hist[i].ctxOut = hist[i].ctxIn)
        /\ ((GitFail(hist[i]) \/ OwaFail(hist[i])) /\ C10_Decodable(hist[i])) =>
                /\ hist[i].ret = EmptyDict
                /\ IsPrefix(HostnamesOf(hist[i].ctxIn), HostnamesOf(hist[i].ctxOut))
                /\ Len(Appended(hist[i])) > 0
                /\ \A j \in 1..Len(Appended(hist[i])) :
                        Appended(hist[i])[j].type \in {"cert-subject-cn", "cert-san-dns"}

\* C10: {} for /x/.git/index with status 404, the hostnames appended
C10_Witness ==
    \E i \in Entries :
        /\ GitFail(hist[i])
        /\ RespIn(hist[i]).status_code = 404
        /\ C10_Decodable(hist[i])
        /\ hist[i].ret = EmptyDict
        /\ Len(Appended(hist[i])) = 2

====
